---- MODULE Spec2Model ----
(***************************************************************************)
(* Model of examples/code/iterative_workflow.py: IterativeRefinerClient,   *)
(* its refine() loop, the plateau test and the result it builds; of the    *)
(* routing and ensemble logic of the tests; and of the recovery functions  *)
(* of examples/code/error_handling.py and examples/code/basic_usage.py.    *)
(*                                                                         *)
(* Scores are the source's two-decimal floats in hundredths (0.82 -> 82);  *)
(* the code only compares them (>=, >, set equality), which the integers   *)
(* do in the same way.  A solution string "Solution attempt <n>..." is     *)
(* represented by its number n.                                            *)
(***************************************************************************)
EXTENDS Integers, Sequences, FiniteSets

\* ---------------------------------------------------------------- bounds
\* largest max_iterations a client is constructed with
MaxIter == 5
\* refine() is not started when the run could grow the history beyond this
MaxHist == 6

\* ------------------------------------------------------ program constants
\* __init__'s default arguments
DefaultMaxIterations == 5
DefaultSuccessThreshold == 90
\* _is_plateau's window
PlateauWindow == 3
\* the variance test_iteration_plateau_detection accepts as a plateau, 0.05
PlateauTolerance == 5
\* the scores of test_iteration_plateau_detection's iterations
TestIterationScores == <<65, 78, 79, 79, 79>>

\* the score and feedback tables of the two _execute_iteration bodies
DefaultScores == <<60, 75, 88, 92, 94>>
PlateauScores == <<70, 82, 82, 82, 82>>

\* the classes whose instances run refine(): the base class, main()'s
\* PlateauSimulator, and a subclass whose _execute_iteration is arbitrary
Kinds == {"default", "plateau", "custom"}
\* what an arbitrary _execute_iteration may score
CustomScores == {82, 84, 90}
\* the success_threshold values a client is constructed with
Thresholds == {85, DefaultSuccessThreshold}

Clients == {1, 2}

VARIABLES
    live,               \* the clients that have been constructed
    kind,               \* kind[c]: the class of client c
    max_iterations,     \* self.max_iterations
    success_threshold,  \* self.success_threshold
    history,            \* self.history
    pc,                 \* where refine() is: "idle", "running", "returned", "raised"
    iteration,          \* the loop variable of refine()
    ret,                \* the dict the last completed refine() returned
    outcome,            \* which return of refine() produced ret
    err,                \* the exception refine() raised
    calls,              \* calls of _execute_iteration made by the current run
    base,               \* len(self.history) when the current run was entered
    err_iteration       \* the iteration number the raised exception carries, 0: none

\* the routing of a task by its complexity score
VARIABLES
    complexity,         \* decision["complexity"], in hundredths (8.5 -> 850)
    route               \* the route the if/elif chain accepts for it

\* the ensemble's tally of the solutions its strategies generated
VARIABLES
    solutions,          \* the list of {"agent", "solution"} dicts
    solution_counts,    \* Counter(s["solution"] for s in solutions)
    consensus_groups,   \* the groups reported for the solutions
    selected_solution   \* recommendation["selected_solution"]

\* a call of one of the functions of error_handling.py and basic_usage.py
VARIABLES
    handler,            \* the function called last, "none" before any call
    response,           \* the dict it was passed
    recovery            \* what it returned or raised

clientVars == <<live, kind, max_iterations, success_threshold, history, pc,
                iteration, ret, outcome, err, calls, base, err_iteration>>
routeVars == <<complexity, route>>
ensembleVars == <<solutions, solution_counts, consensus_groups,
                  selected_solution>>

handlerVars == <<handler, response, recovery>>

vars == <<clientVars, routeVars, ensembleVars, handlerVars>>

Min(a, b) == IF a < b THEN a ELSE b

\* the dict _execute_iteration returns
Attempt(it, s, fb) ==
    [iteration |-> it, score |-> s, feedback |-> fb, solution |-> it]

\* IterativeRefinerClient._execute_iteration
ExecuteIterationDefault(it) ==
    LET idx == Min(it - 1, Len(DefaultScores) - 1)
    IN  Attempt(it, DefaultScores[idx + 1], idx + 1)

\* PlateauSimulator._execute_iteration
ExecuteIterationPlateau(it) ==
    LET idx == Min(it - 1, Len(PlateauScores) - 1)
    IN  Attempt(it, PlateauScores[idx + 1], idx + 1)

\* the results self._execute_iteration(iteration, task) can return
execute_iteration(k, it) ==
    CASE k = "default" -> {ExecuteIterationDefault(it)}
      [] k = "plateau" -> {ExecuteIterationPlateau(it)}
      [] OTHER         -> {Attempt(it, s, 0) : s \in CustomScores}

\* _is_plateau with the tolerance test of test_iteration_plateau_detection
is_plateau_tolerant(h) ==
    IF Len(h) < PlateauWindow
    THEN FALSE
    ELSE LET recent == {h[i].score : i \in (Len(h) - PlateauWindow + 1)..Len(h)}
         IN  \A a, b \in recent : a - b < PlateauTolerance

\* _is_plateau comparing the last two scores only
is_plateau_pair(h) ==
    IF Len(h) < 2
    THEN FALSE
    ELSE h[Len(h)].score = h[Len(h) - 1].score

\* _is_plateau, on the history h
is_plateau(h) ==
    IF Len(h) < PlateauWindow
    THEN FALSE
    ELSE Cardinality({h[i].score : i \in (Len(h) - PlateauWindow + 1)..Len(h)}) = 1

\* max(h, key=lambda x: x['score']): the first element no later one beats
RECURSIVE MaxFrom(_, _, _)
MaxFrom(h, i, best) ==
    IF i > Len(h)
    THEN best
    ELSE MaxFrom(h, i + 1, IF h[i].score > best.score THEN h[i] ELSE best)

MaxByScore(h) == MaxFrom(h, 2, h[1])

\* _build_final_result with the history copied before the last append
build_final_result_stale(h, final_iteration, result) ==
    [iteration      |-> final_iteration,
     solution       |-> result.solution,
     score          |-> result.score,
     history        |-> SubSeq(h, 1, Len(h) - 1),
     best_iteration |-> MaxByScore(h).iteration]

\* _build_final_result, with self.history = h
build_final_result(h, final_iteration, result) ==
    [iteration      |-> final_iteration,
     solution       |-> result.solution,
     score          |-> result.score,
     history        |-> h,
     best_iteration |-> MaxByScore(h).iteration]

\* no dict has been returned yet
NoResult ==
    [iteration |-> 0, solution |-> 0, score |-> 0, history |-> <<>>,
     best_iteration |-> 0]

\* Decide with the budget tested before the score
DecideBudgetFirst(h, result, it, maxit, threshold) ==
    IF it >= maxit THEN "max_iterations"
    ELSE IF result.score >= threshold THEN "success"
    ELSE IF is_plateau(h) THEN "plateau"
    ELSE "continue"

\* Decide with the plateau branch falling through instead of returning
DecideNoPlateauStop(h, result, it, maxit, threshold) ==
    IF result.score >= threshold THEN "success"
    ELSE IF it < maxit THEN "continue"
    ELSE "max_iterations"

\* Decide with range(1, max_iterations + 2)
DecideOffByOne(h, result, it, maxit, threshold) ==
    IF result.score >= threshold THEN "success"
    ELSE IF is_plateau(h) THEN "plateau"
    ELSE IF it <= maxit THEN "continue"
    ELSE "max_iterations"

\* Decide with > in place of >=
DecideStrict(h, result, it, maxit, threshold) ==
    IF result.score > threshold THEN "success"
    ELSE IF is_plateau(h) THEN "plateau"
    ELSE IF it < maxit THEN "continue"
    ELSE "max_iterations"

\* Decide with the score not tested on the first iteration
DecideChecksSuccessLate(h, result, it, maxit, threshold) ==
    IF it >= 2 /\ result.score >= threshold THEN "success"
    ELSE IF is_plateau(h) THEN "plateau"
    ELSE IF it < maxit THEN "continue"
    ELSE "max_iterations"

\* Decide with range(1, max_iterations)
DecideStopsEarly(h, result, it, maxit, threshold) ==
    IF result.score >= threshold THEN "success"
    ELSE IF is_plateau(h) THEN "plateau"
    ELSE IF it + 1 < maxit THEN "continue"
    ELSE "max_iterations"

\* the loop body's decision after the append (lines 49-59) and the loop's
\* exit (lines 61-64): h is the history with result appended
Decide(h, result, it, maxit, threshold) ==
    IF result.score >= threshold THEN "success"
    ELSE IF is_plateau(h) THEN "plateau"
    ELSE IF it < maxit THEN "continue"
    ELSE "max_iterations"

\* Returned with the last result passed at line 64 too
ReturnedLast(d, h, result, it, maxit) ==
    build_final_result(h, IF d = "max_iterations" THEN maxit ELSE it, result)

\* the result argument each return passes to _build_final_result
Returned(d, h, result, it, maxit) ==
    IF d = "max_iterations"
    THEN build_final_result(h, maxit, MaxByScore(h))
    ELSE build_final_result(h, it, result)

\* ------------------------------------------------------------------ Init
\* no task has been routed
RouteIdle == complexity = 0 /\ route = "none"

\* no function of error_handling.py or basic_usage.py has been called
HandlerIdle ==
    /\ handler = "none"
    /\ response = [called |-> FALSE]
    /\ recovery = [action |-> "none", raised |-> "none"]

\* no solutions have been tallied
EnsembleIdle ==
    /\ solutions = <<>>
    /\ solution_counts = <<>>
    /\ consensus_groups = <<>>
    /\ selected_solution = "none"

\* the clients in L have been constructed, the others have not
InitClients(L) ==
    /\ live = L
    /\ kind \in [Clients -> Kinds]
    /\ max_iterations \in [Clients -> (-1)..MaxIter]
    /\ success_threshold \in [Clients -> Thresholds]
    /\ \A c \in Clients \ live :
          /\ kind[c] = "default"
          /\ max_iterations[c] = DefaultMaxIterations
          /\ success_threshold[c] = DefaultSuccessThreshold
    /\ history = [c \in Clients |-> <<>>]
    /\ pc = [c \in Clients |-> "idle"]
    /\ iteration = [c \in Clients |-> 0]
    /\ ret = [c \in Clients |-> NoResult]
    /\ outcome = [c \in Clients |-> "none"]
    /\ err = [c \in Clients |-> "none"]
    /\ calls = [c \in Clients |-> 0]
    /\ base = [c \in Clients |-> 0]
    /\ err_iteration = [c \in Clients |-> 0]

Init == InitClients({1}) /\ RouteIdle /\ EnsembleIdle /\ HandlerIdle

\* --------------------------------------------------------------- actions
\* Refine with a loop that is entered before its bound is tested
RefineRunsOnce(c) ==
    /\ c \in live
    /\ pc[c] # "running"
    /\ Len(history[c]) + max_iterations[c] <= MaxHist
    /\ calls' = [calls EXCEPT ![c] = 0]
    /\ base' = [base EXCEPT ![c] = Len(history[c])]
    /\ IF max_iterations[c] >= 0
       THEN /\ pc' = [pc EXCEPT ![c] = "running"]
            /\ iteration' = [iteration EXCEPT ![c] = 1]
            /\ outcome' = [outcome EXCEPT ![c] = "none"]
            /\ err' = [err EXCEPT ![c] = "none"]
            /\ err_iteration' = [err_iteration EXCEPT ![c] = 0]
            /\ UNCHANGED ret
       ELSE IF history[c] = <<>>
       THEN \* max() of an empty list
            /\ pc' = [pc EXCEPT ![c] = "raised"]
            /\ err' = [err EXCEPT ![c] = "ValueError"]
            /\ err_iteration' = [err_iteration EXCEPT ![c] = 0]
            /\ outcome' = [outcome EXCEPT ![c] = "none"]
            /\ UNCHANGED <<iteration, ret>>
       ELSE /\ pc' = [pc EXCEPT ![c] = "returned"]
            /\ outcome' = [outcome EXCEPT ![c] = "max_iterations"]
            /\ err' = [err EXCEPT ![c] = "none"]
            /\ err_iteration' = [err_iteration EXCEPT ![c] = 0]
            /\ ret' = [ret EXCEPT ![c] =
                  build_final_result(history[c], max_iterations[c],
                                     MaxByScore(history[c]))]
            /\ UNCHANGED iteration
    /\ UNCHANGED <<live, kind, max_iterations, success_threshold, history>>
    /\ UNCHANGED <<routeVars, ensembleVars, handlerVars>>

\* refine() is called: lines 34-39, and lines 61-64 when range() is empty
Refine(c) ==
    /\ c \in live
    /\ pc[c] # "running"
    /\ Len(history[c]) + max_iterations[c] <= MaxHist
    /\ calls' = [calls EXCEPT ![c] = 0]
    /\ base' = [base EXCEPT ![c] = Len(history[c])]
    /\ IF max_iterations[c] >= 1
       THEN /\ pc' = [pc EXCEPT ![c] = "running"]
            /\ iteration' = [iteration EXCEPT ![c] = 1]
            /\ outcome' = [outcome EXCEPT ![c] = "none"]
            /\ err' = [err EXCEPT ![c] = "none"]
            /\ err_iteration' = [err_iteration EXCEPT ![c] = 0]
            /\ UNCHANGED ret
       ELSE IF history[c] = <<>>
       THEN \* max() of an empty list
            /\ pc' = [pc EXCEPT ![c] = "raised"]
            /\ err' = [err EXCEPT ![c] = "ValueError"]
            /\ err_iteration' = [err_iteration EXCEPT ![c] = 0]
            /\ outcome' = [outcome EXCEPT ![c] = "none"]
            /\ UNCHANGED <<iteration, ret>>
       ELSE /\ pc' = [pc EXCEPT ![c] = "returned"]
            /\ outcome' = [outcome EXCEPT ![c] = "max_iterations"]
            /\ err' = [err EXCEPT ![c] = "none"]
            /\ err_iteration' = [err_iteration EXCEPT ![c] = 0]
            /\ ret' = [ret EXCEPT ![c] =
                  build_final_result(history[c], max_iterations[c],
                                     MaxByScore(history[c]))]
            /\ UNCHANGED iteration
    /\ UNCHANGED <<live, kind, max_iterations, success_threshold, history>>
    /\ UNCHANGED <<routeVars, ensembleVars, handlerVars>>

\* Iterate with history a class attribute, one list shared by every client
IterateShared(c) ==
    /\ c \in live
    /\ pc[c] = "running"
    /\ \E result \in execute_iteration(kind[c], iteration[c]) :
         LET h == Append(history[c], result)
             d == Decide(h, result, iteration[c], max_iterations[c],
                         success_threshold[c])
         IN  /\ history' = [x \in Clients |->
                    IF x \in live THEN Append(history[x], result)
                                  ELSE history[x]]
             /\ calls' = [calls EXCEPT ![c] = calls[c] + 1]
             /\ IF d = "continue"
                THEN /\ iteration' = [iteration EXCEPT ![c] = iteration[c] + 1]
                     /\ UNCHANGED <<pc, ret, outcome>>
                ELSE /\ pc' = [pc EXCEPT ![c] = "returned"]
                     /\ outcome' = [outcome EXCEPT ![c] = d]
                     /\ ret' = [ret EXCEPT ![c] =
                           Returned(d, h, result, iteration[c], max_iterations[c])]
                     /\ UNCHANGED iteration
    /\ UNCHANGED <<live, kind, max_iterations, success_threshold, err, base,
                   err_iteration>>
    /\ UNCHANGED <<routeVars, ensembleVars, handlerVars>>

\* Iterate with a history that keeps the last three attempts only
IterateKeepsWindow(c) ==
    /\ c \in live
    /\ pc[c] = "running"
    /\ \E result \in execute_iteration(kind[c], iteration[c]) :
         LET h == Append(history[c], result)
             d == Decide(h, result, iteration[c], max_iterations[c],
                         success_threshold[c])
         IN  /\ history' = [history EXCEPT ![c] =
                    IF Len(h) > PlateauWindow THEN Tail(h) ELSE h]
             /\ calls' = [calls EXCEPT ![c] = calls[c] + 1]
             /\ IF d = "continue"
                THEN /\ iteration' = [iteration EXCEPT ![c] = iteration[c] + 1]
                     /\ UNCHANGED <<pc, ret, outcome>>
                ELSE /\ pc' = [pc EXCEPT ![c] = "returned"]
                     /\ outcome' = [outcome EXCEPT ![c] = d]
                     /\ ret' = [ret EXCEPT ![c] =
                           Returned(d, h, result, iteration[c], max_iterations[c])]
                     /\ UNCHANGED iteration
    /\ UNCHANGED <<live, kind, max_iterations, success_threshold, err, base,
                   err_iteration>>
    /\ UNCHANGED <<routeVars, ensembleVars, handlerVars>>

\* Iterate with _build_final_result returning self.history itself, so that
\* an earlier result sees the appends of a later run
IterateAliased(c) ==
    /\ c \in live
    /\ pc[c] = "running"
    /\ \E result \in execute_iteration(kind[c], iteration[c]) :
         LET h == Append(history[c], result)
             d == Decide(h, result, iteration[c], max_iterations[c],
                         success_threshold[c])
         IN  /\ history' = [history EXCEPT ![c] = h]
             /\ calls' = [calls EXCEPT ![c] = calls[c] + 1]
             /\ IF d = "continue"
                THEN /\ iteration' = [iteration EXCEPT ![c] = iteration[c] + 1]
                     /\ ret' = [ret EXCEPT ![c] =
                            IF ret[c] = NoResult THEN ret[c]
                            ELSE [ret[c] EXCEPT !.history = h]]
                     /\ UNCHANGED <<pc, outcome>>
                ELSE /\ pc' = [pc EXCEPT ![c] = "returned"]
                     /\ outcome' = [outcome EXCEPT ![c] = d]
                     /\ ret' = [ret EXCEPT ![c] =
                           Returned(d, h, result, iteration[c], max_iterations[c])]
                     /\ UNCHANGED iteration
    /\ UNCHANGED <<live, kind, max_iterations, success_threshold, err, base,
                   err_iteration>>
    /\ UNCHANGED <<routeVars, ensembleVars, handlerVars>>

\* one pass of the loop body, lines 40-59, and lines 61-64 after the last
Iterate(c) ==
    /\ c \in live
    /\ pc[c] = "running"
    /\ \E result \in execute_iteration(kind[c], iteration[c]) :
         LET h == Append(history[c], result)
             d == Decide(h, result, iteration[c], max_iterations[c],
                         success_threshold[c])
         IN  /\ history' = [history EXCEPT ![c] = h]
             /\ calls' = [calls EXCEPT ![c] = calls[c] + 1]
             /\ IF d = "continue"
                THEN /\ iteration' = [iteration EXCEPT ![c] = iteration[c] + 1]
                     /\ UNCHANGED <<pc, ret, outcome>>
                ELSE /\ pc' = [pc EXCEPT ![c] = "returned"]
                     /\ outcome' = [outcome EXCEPT ![c] = d]
                     /\ ret' = [ret EXCEPT ![c] =
                           Returned(d, h, result, iteration[c], max_iterations[c])]
                     /\ UNCHANGED iteration
    /\ UNCHANGED <<live, kind, max_iterations, success_threshold, err, base,
                   err_iteration>>
    /\ UNCHANGED <<routeVars, ensembleVars, handlerVars>>

\* an overriding _execute_iteration raises at line 43: nothing in refine()
\* catches it, so the caller gets the exception as it was raised, with the
\* iteration number its raiser put in it or none
IterationFails(c) ==
    /\ c \in live
    /\ pc[c] = "running"
    /\ kind[c] = "custom"
    /\ pc' = [pc EXCEPT ![c] = "raised"]
    /\ err' = [err EXCEPT ![c] = "IterationError"]
    /\ calls' = [calls EXCEPT ![c] = calls[c] + 1]
    /\ \E tag \in 0..max_iterations[c] :
          err_iteration' = [err_iteration EXCEPT ![c] = tag]
    /\ UNCHANGED <<live, kind, max_iterations, success_threshold, history,
                   iteration, ret, outcome, base>>
    /\ UNCHANGED <<routeVars, ensembleVars, handlerVars>>

Next ==
    \/ \E c \in Clients : Refine(c)
    \/ \E c \in Clients : Iterate(c)
    \/ \E c \in Clients : IterationFails(c)

Spec == Init /\ [][Next]_vars

\* main()'s refiner and a second client of any class and configuration,
\* both constructed, their refine() calls interleaved
InitTwo ==
    /\ InitClients(Clients)
    /\ kind[1] = "default"
    /\ max_iterations[1] = DefaultMaxIterations
    /\ success_threshold[1] = DefaultSuccessThreshold
    /\ RouteIdle
    /\ EnsembleIdle
    /\ HandlerIdle

SpecTwo == InitTwo /\ [][Next]_vars

\* the loop of a running refine() keeps executing
FairSpec == Spec /\ WF_vars(\E c \in Clients : Iterate(c))

TypeOK ==
    /\ live \subseteq Clients
    /\ \A c \in Clients :
          /\ pc[c] \in {"idle", "running", "returned", "raised"}
          /\ outcome[c] \in {"none", "success", "plateau", "max_iterations"}
          /\ Len(history[c]) <= MaxHist

\* --------------------------------------------------------------- routing
\* the valid complexity scores, 1.0 to 10.0, in hundredths
ComplexityMin == 100
ComplexityMax == 1000

\* the routing chain with 8.5 sent to the ensemble
RouteCriticalAtBoundary(score) ==
    IF score <= 300 THEN "execute_directly"
    ELSE IF score <= 600 THEN "single_pass_review"
    ELSE IF score < 850 THEN "iterative_refinement"
    ELSE "ensemble"

\* the routing chain of test_profile_routes_based_on_complexity
Route(score) ==
    IF score <= 300 THEN "execute_directly"
    ELSE IF score <= 600 THEN "single_pass_review"
    ELSE IF score <= 850 THEN "iterative_refinement"
    ELSE "ensemble"

\* the complexity bands of TestComplexityToStrategyFlow, each with the
\* recommendations its test accepts
Bands ==
    { [band |-> "low", lo |-> 100, hi |-> 300,
       recommendations |-> {"solve-directly"}],
      [band |-> "medium", lo |-> 400, hi |-> 600,
       recommendations |-> {"single-pass-with-review"}],
      [band |-> "high", lo |-> 700, hi |-> 850,
       recommendations |-> {"iterative-refinement", "decompose"}],
      [band |-> "critical", lo |-> 850, hi |-> 1000,
       recommendations |-> {"ensemble", "decompose"}] }

\* the profile routes a task of some valid complexity score
RouteTask ==
    /\ \E score \in ComplexityMin..ComplexityMax :
          /\ complexity' = score
          /\ route' = Route(score)
    /\ UNCHANGED <<clientVars, ensembleVars, handlerVars>>

NextRouting == RouteTask

\* no client is constructed; tasks are routed
InitRouting == InitClients({}) /\ RouteIdle /\ EnsembleIdle /\ HandlerIdle

SpecRouting == InitRouting /\ [][NextRouting]_vars


\* -------------------------------------------------------------- ensemble
\* the parallel strategies of one ensemble run; a solution string is a
\* number, two solutions are identical when their numbers are equal
MaxStrategies == 5

\* the solution_id of the first, second, ... consensus group
SolutionIds == <<"A", "B", "C", "D", "E", "F", "G", "H">>

\* Counter with every count left at 1
RECURSIVE CounterAsSet(_)
CounterAsSet(sols) ==
    IF sols = <<>>
    THEN <<>>
    ELSE LET c == CounterAsSet(SubSeq(sols, 1, Len(sols) - 1))
             s == sols[Len(sols)].solution
         IN  IF \E i \in DOMAIN c : c[i].solution = s
             THEN c
             ELSE Append(c, [solution |-> s, count |-> 1])

\* Counter(s["solution"] for s in solutions): the entries in the order of
\* first insertion, one increment for each element
RECURSIVE Counter(_)
Counter(sols) ==
    IF sols = <<>>
    THEN <<>>
    ELSE LET c == Counter(SubSeq(sols, 1, Len(sols) - 1))
             s == sols[Len(sols)].solution
         IN  IF \E i \in DOMAIN c : c[i].solution = s
             THEN [i \in DOMAIN c |->
                      IF c[i].solution = s
                      THEN [c[i] EXCEPT !.count = @ + 1]
                      ELSE c[i]]
             ELSE Append(c, [solution |-> s, count |-> 1])

\* the agents of sols that gave solution s, in order
RECURSIVE AgentsOf(_, _)
AgentsOf(sols, s) ==
    IF sols = <<>>
    THEN <<>>
    ELSE LET front == AgentsOf(SubSeq(sols, 1, Len(sols) - 1), s)
         IN  IF sols[Len(sols)].solution = s
             THEN Append(front, sols[Len(sols)].agent)
             ELSE front

\* the consensus groups of the coordinator's result: one group for each
\* entry of the tally, with the votes of the tally and the agents that gave
\* the solution
ConsensusGroups(sols) ==
    LET c == Counter(sols)
    IN  [g \in DOMAIN c |->
            [solution_id |-> SolutionIds[g],
             solution |-> c[g].solution,
             vote_count |-> c[g].count,
             agents |-> AgentsOf(sols, c[g].solution)]]

\* every group (a selection that ignores the votes)
AnyGroup(groups) == {groups[g].solution_id : g \in DOMAIN groups}

\* the groups with the most votes
MostVoted(groups) ==
    {groups[g].solution_id : g \in
        {g \in DOMAIN groups :
            \A o \in DOMAIN groups :
                groups[o].vote_count <= groups[g].vote_count}}

\* one more strategy returns its solution
RunStrategy ==
    /\ selected_solution = "none"
    /\ Len(solutions) < MaxStrategies
    /\ \E s \in 1..MaxStrategies :
          solutions' = Append(solutions,
                              [agent |-> Len(solutions) + 1, solution |-> s])
    /\ UNCHANGED <<solution_counts, consensus_groups, selected_solution>>
    /\ UNCHANGED <<clientVars, routeVars, handlerVars>>

\* the coordinator tallies the solutions, groups them and selects one
Coordinate ==
    /\ selected_solution = "none"
    /\ Len(solutions) >= 1
    /\ solution_counts' = Counter(solutions)
    /\ consensus_groups' = ConsensusGroups(solutions)
    /\ \E id \in MostVoted(ConsensusGroups(solutions)) :
          selected_solution' = id
    /\ UNCHANGED solutions
    /\ UNCHANGED <<clientVars, routeVars, handlerVars>>

NextEnsemble == RunStrategy \/ Coordinate

\* no client is constructed; one ensemble runs
InitEnsemble == InitClients({}) /\ RouteIdle /\ EnsembleIdle /\ HandlerIdle

SpecEnsemble == InitEnsemble /\ [][NextEnsemble]_vars


\* ------------------------------------------- error_handling, basic_usage
\* A dict entry that holds a number is a record: the key is missing, or its
\* value is None, or its value is the number n (a score in hundredths).
Missing == [kind |-> "missing", n |-> 0]
None == [kind |-> "none", n |-> 0]
Num(x) == [kind |-> "num", n |-> x]
\* An entry that holds a string is the string, Absent when the key is
\* missing; an entry that holds a list or a dict is a record of its items.
Absent == "<absent>"
NoList == [kind |-> "missing", items |-> <<>>]
List(xs) == [kind |-> "list", items |-> xs]
NoDict == [kind |-> "missing", items |-> {}]
Dict(kvs) == [kind |-> "dict", items |-> kvs]

\* response.get(key): None for a missing key
Get(entry) == IF entry.kind = "missing" THEN None ELSE entry
\* response.get(key, default)
GetOr(entry, default) == IF entry.kind = "missing" THEN default ELSE entry

\* the scores the handlers compare with: 0.5 and 0.7
LowConfidence == 50
AcceptableScore == 70
\* fallback_score, 5.0 in hundredths
FallbackScore == 500

\* a returned dict, by its keys other than the fixed texts
Raise(exc) == [action |-> "none", raised |-> exc]

\* handle_complexity_assessment_error with the confidence tested before the
\* score
handle_complexity_assessment_error_confidence_first(r) ==
    LET out(a, q, ctx, fb) ==
            [action |-> a, raised |-> "none", questions |-> q,
             required_context |-> ctx, fallback_score |-> fb]
    IN  IF GetOr(r.confidence, Num(100)).n < LowConfidence
        THEN out("warn_user", NoList, NoList, Missing)
        ELSE IF Get(r.complexity_score).kind = "none"
        THEN IF r.recommendation = "clarify-requirements"
             THEN out("ask_user", GetOr(r.questions, List(<<>>)),
                      NoList, Missing)
             ELSE IF r.recommendation = "cannot-assess"
             THEN out("provide_context", NoList,
                      GetOr(r.required_context, List(<<>>)), Missing)
             ELSE out("use_best_judgment", NoList, NoList,
                      Num(FallbackScore))
        ELSE out("proceed", NoList, NoList, Missing)

\* ErrorHandler.handle_complexity_assessment_error; None < 0.5 raises
\* TypeError
handle_complexity_assessment_error(r) ==
    LET out(a, q, ctx, fb) ==
            [action |-> a, raised |-> "none", questions |-> q,
             required_context |-> ctx, fallback_score |-> fb]
    IN  IF Get(r.complexity_score).kind = "none"
        THEN LET recommendation ==
                     IF r.recommendation = Absent THEN "unknown"
                     ELSE r.recommendation
             IN  IF recommendation = "clarify-requirements"
                 THEN out("ask_user", GetOr(r.questions, List(<<>>)),
                          NoList, Missing)
                 ELSE IF recommendation = "cannot-assess"
                 THEN out("provide_context", NoList,
                          GetOr(r.required_context, List(<<>>)), Missing)
                 ELSE out("use_best_judgment", NoList, NoList,
                          Num(FallbackScore))
        ELSE IF GetOr(r.confidence, Num(100)).kind = "none"
        THEN Raise("TypeError")
        ELSE IF GetOr(r.confidence, Num(100)).n < LowConfidence
        THEN out("warn_user", NoList, NoList, Missing)
        ELSE out("proceed", NoList, NoList, Missing)

\* handle_evaluation_error with the null overall_score tested first
handle_evaluation_error_score_first(r) ==
    LET error_type == IF r.error.kind = "missing" THEN Absent
                      ELSE r.error.type
        out(a, ps, sc) ==
            [action |-> a, raised |-> "none", partial_scores |-> ps,
             score |-> sc]
    IN  IF Get(r.overall_score).kind = "none"
        THEN out("skip_evaluation", NoDict, Missing)
        ELSE IF error_type = "test_execution_error"
        THEN out("use_partial_evaluation", GetOr(r.scores, Dict({})), Missing)
        ELSE IF error_type = "file_access_error"
        THEN out("abort_evaluation", NoDict, Missing)
        ELSE IF r.note # Absent /\ r.note # ""
        THEN out("proceed_with_warning", NoDict, Get(r.overall_score))
        ELSE out("proceed", NoDict, Missing)

\* ErrorHandler.handle_evaluation_error; the suggestion and missing_files
\* entries, copied from the error, are left out
handle_evaluation_error(r) ==
    LET error_type == IF r.error.kind = "missing" THEN Absent
                      ELSE r.error.type
        out(a, ps, sc) ==
            [action |-> a, raised |-> "none", partial_scores |-> ps,
             score |-> sc]
    IN  IF error_type = "test_execution_error"
        THEN out("use_partial_evaluation", GetOr(r.scores, Dict({})), Missing)
        ELSE IF error_type = "file_access_error"
        THEN out("abort_evaluation", NoDict, Missing)
        ELSE IF Get(r.overall_score).kind = "none"
        THEN out("skip_evaluation", NoDict, Missing)
        ELSE IF r.note # Absent /\ r.note # ""
        THEN out("proceed_with_warning", NoDict, Get(r.overall_score))
        ELSE out("proceed", NoDict, Missing)

\* ErrorHandler.handle_iteration_timeout: response['iteration'] raises
\* KeyError for a missing key, None >= 0.7 raises TypeError
handle_iteration_timeout(r) ==
    LET out(a, bs) == [action |-> a, raised |-> "none", best_score |-> bs]
    IN  IF r.status = "budget_exhausted"
        THEN IF r.iteration.kind = "missing"
             THEN Raise("KeyError")
             ELSE out("return_best_attempt", Get(r.self_score))
        ELSE IF r.status = "max_iterations_reached"
        THEN LET best_score == GetOr(r.self_score, Num(0))
             IN  IF best_score.kind = "none"
                 THEN Raise("TypeError")
                 ELSE IF best_score.n >= AcceptableScore
                 THEN out("accept_good_enough", Missing)
                 ELSE out("suggest_decomposition", Missing)
        ELSE IF r.status = "plateau_detected"
        THEN out("try_different_approach", Missing)
        ELSE out("proceed", Missing)

\* the strategies dict of route_based_on_complexity
strategies ==
    [r \in {"solve-directly", "single-pass-with-review",
            "iterative-refinement", "ensemble", "decompose"} |->
        CASE r = "solve-directly" -> "execute_immediately"
          [] r = "single-pass-with-review" -> "implement_and_review"
          [] r = "iterative-refinement" -> "use_iterative_refiner"
          [] r = "ensemble" -> "use_ensemble_coordinator"
          [] r = "decompose" -> "break_into_subtasks"]

\* route_based_on_complexity: the two subscripts raise KeyError for a
\* missing key, the recommendation's first; None < 0.5 raises TypeError
route_based_on_complexity(assessment) ==
    IF assessment.recommendation = Absent
    THEN Raise("KeyError")
    ELSE IF assessment.confidence.kind = "missing"
    THEN Raise("KeyError")
    ELSE IF assessment.confidence.kind = "none"
    THEN Raise("TypeError")
    ELSE IF assessment.confidence.n < LowConfidence
    THEN [action |-> "clarify-with-user", raised |-> "none"]
    ELSE IF assessment.recommendation \in DOMAIN strategies
    THEN [action |-> strategies[assessment.recommendation], raised |-> "none"]
    ELSE [action |-> "unknown", raised |-> "none"]

\* the entries of the responses the functions are called with: those of the
\* responses in the examples and tests, each key present or missing
ComplexityScores == {Missing, None, Num(700)}
Confidences == {Missing, Num(0), Num(30), Num(49), Num(50), Num(85)}
KnownRecommendations ==
    {"solve-directly", "single-pass-with-review", "iterative-refinement",
     "decompose", "ensemble"}
Recommendations ==
    KnownRecommendations \cup {"clarify-requirements", "cannot-assess", Absent}
Questions ==
    {NoList, List(<<"Which modules should be affected?",
                    "What are the success criteria?">>)}
RequiredContexts == {NoList, List(<<"file1.py", "file2.py">>)}
Errors ==
    {[kind |-> "missing", type |-> Absent]} \cup
    [kind : {"dict"},
     type : {"test_execution_error", "file_access_error", "timeout", Absent}]
OverallScores == {Missing, None, Num(50)}
Notes == {Absent, "Tests failed, partial evaluation only"}
DimensionScores ==
    {NoDict,
     Dict({<<"correctness", None>>, <<"completeness", Num(60)>>,
           <<"quality", Num(70)>>, <<"testability", Num(30)>>})}
Statuses ==
    {"budget_exhausted", "max_iterations_reached", "plateau_detected",
     "completed", Absent}
SelfScores == {Missing, None, Num(55), Num(69), Num(70), Num(78)}
Iterations == {Missing, Num(3)}

\* handler.handle_complexity_assessment_error(response)
HandleComplexityAssessmentError ==
    /\ \E cs \in ComplexityScores, cf \in Confidences, rec \in Recommendations,
          q \in Questions, ctx \in RequiredContexts :
          LET r == [complexity_score |-> cs, confidence |-> cf,
                    recommendation |-> rec, questions |-> q,
                    required_context |-> ctx]
          IN  /\ response' = r
              /\ recovery' = handle_complexity_assessment_error(r)
    /\ handler' = "handle_complexity_assessment_error"
    /\ UNCHANGED <<clientVars, routeVars, ensembleVars>>

\* handler.handle_evaluation_error(response)
HandleEvaluationError ==
    /\ \E e \in Errors, os \in OverallScores, nt \in Notes,
          sc \in DimensionScores :
          LET r == [error |-> e, overall_score |-> os, note |-> nt,
                    scores |-> sc]
          IN  /\ response' = r
              /\ recovery' = handle_evaluation_error(r)
    /\ handler' = "handle_evaluation_error"
    /\ UNCHANGED <<clientVars, routeVars, ensembleVars>>

\* handler.handle_iteration_timeout(response)
HandleIterationTimeout ==
    /\ \E st \in Statuses, ss \in SelfScores, it \in Iterations :
          LET r == [status |-> st, self_score |-> ss, iteration |-> it]
          IN  /\ response' = r
              /\ recovery' = handle_iteration_timeout(r)
    /\ handler' = "handle_iteration_timeout"
    /\ UNCHANGED <<clientVars, routeVars, ensembleVars>>

\* route_based_on_complexity(assessment)
RouteBasedOnComplexity ==
    /\ \E rec \in Recommendations, cf \in Confidences :
          LET a == [recommendation |-> rec, confidence |-> cf]
          IN  /\ response' = a
              /\ recovery' = route_based_on_complexity(a)
    /\ handler' = "route_based_on_complexity"
    /\ UNCHANGED <<clientVars, routeVars, ensembleVars>>

NextHandlers ==
    \/ HandleComplexityAssessmentError
    \/ HandleEvaluationError
    \/ HandleIterationTimeout
    \/ RouteBasedOnComplexity

\* no client is constructed; the functions are called on responses
InitHandlers == InitClients({}) /\ RouteIdle /\ EnsembleIdle /\ HandlerIdle

SpecHandlers == InitHandlers /\ [][NextHandlers]_vars

\* the dict _build_final_result returns with a status and a self_score
\* written into it
ResultWithStatus(result) ==
    [status |-> "max_iterations_reached",
     self_score |-> Num(result.score),
     iteration |-> Num(result.iteration)]

\* the dict _build_final_result returns, as handle_iteration_timeout reads
\* it: its keys are iteration, solution, score, history and best_iteration,
\* so status and self_score are missing
ResultAsResponse(result) ==
    [status |-> Absent, self_score |-> Missing,
     iteration |-> Num(result.iteration)]

\* handler.handle_iteration_timeout(c.refine(task))
HandleResult(c) ==
    /\ c \in live
    /\ pc[c] = "returned"
    /\ handler' = "handle_iteration_timeout"
    /\ response' = ResultAsResponse(ret[c])
    /\ recovery' = handle_iteration_timeout(ResultAsResponse(ret[c]))
    /\ UNCHANGED <<clientVars, routeVars, ensembleVars>>

NextRecover ==
    \/ Next
    \/ \E c \in Clients : HandleResult(c)

\* a refiner whose results are passed to handle_iteration_timeout
SpecRecover == Init /\ [][NextRecover]_vars

\* ---------------------------------------------------------------- claims
Last(h) == h[Len(h)]

\* the attempts the current (or last) run of c appended
RunIndexes(c) == (base[c] + 1)..Len(history[c])

\* h[i] has the maximum score of h and, among those, the lowest iteration
IsBest(h, i) ==
    \A j \in 1..Len(h) :
        \/ h[i].score > h[j].score
        \/ h[i].score = h[j].score /\ h[i].iteration <= h[j].iteration

\* h[i] has the maximum score of h
IsMax(h, i) == \A j \in 1..Len(h) : h[i].score >= h[j].score

Ended(c) == c \in live /\ pc[c] = "returned"

\* C1: whichever return ends a run, the solution and the score of the
\* returned result are those of the attempt with the maximum score of the
\* whole history, the lowest iteration number among equals.  Stated for the
\* runs entered with an empty history, where the history is the run's own.
C1_ReturnsBestOfHistory ==
    \A c \in Clients :
        (Ended(c) /\ base[c] = 0) =>
            \E i \in 1..Len(ret[c].history) :
                /\ IsBest(ret[c].history, i)
                /\ ret[c].solution = ret[c].history[i].solution
                /\ ret[c].score = ret[c].history[i].score

\* C2: an iteration that appends a score >= success_threshold ends the run
\* on that iteration by the success return, never by the plateau or the
\* max-iterations return and never by continuing, also when it is the last
\* allowed iteration or completes three identical scores.
C2_SuccessFirst ==
    \A c \in Clients :
        ( /\ c \in live
          /\ pc[c] \in {"running", "returned"}
          /\ Len(history[c]) > base[c]
          /\ Last(history[c]).score >= success_threshold[c] )
        => /\ pc[c] = "returned"
           /\ outcome[c] = "success"
           /\ ret[c].iteration = Last(history[c]).iteration
           /\ ret[c].iteration = Len(history[c]) - base[c]

\* a success on the last allowed iteration that also completes a window of
\* three identical scores
C2_Witness ==
    \E c \in Clients :
        /\ Ended(c)
        /\ outcome[c] = "success"
        /\ ret[c].iteration = max_iterations[c]
        /\ is_plateau(history[c])

\* C3: the history of a client is never longer than its max_iterations,
\* whatever refine() calls were made on it.
C3_HistoryWithinMaxIterations ==
    \A c \in Clients : c \in live => Len(history[c]) <= max_iterations[c]

\* C4: after the iteration that ends a run nothing more is executed: a step
\* that calls _execute_iteration or appends to the history is taken only
\* by a run in progress whose previous iteration, if any, met none of the
\* three terminal conditions.
C4_NoIterationAfterTerminal ==
    [][\A c \in Clients :
         (history'[c] # history[c] \/ calls'[c] = calls[c] + 1)
         => /\ pc[c] = "running"
            /\ calls[c] > 0 =>
                 /\ Last(history[c]).score < success_threshold[c]
                 /\ ~is_plateau(history[c])
                 /\ Last(history[c]).iteration < max_iterations[c]]_vars

\* a run ended by success or plateau with iterations to spare
C4_Witness ==
    \E c \in Clients :
        /\ Ended(c)
        /\ outcome[c] \in {"success", "plateau"}
        /\ ret[c].iteration < max_iterations[c]
        /\ Len(history[c]) + 1 <= MaxHist

\* C5: with max_iterations >= 1 a run never calls _execute_iteration more
\* than max_iterations times, a run that returns after fewer calls was
\* ended by success or plateau, a run that returns past the loop made
\* exactly max_iterations calls, and every run that starts ends.
C5_CallCount ==
    \A c \in Clients :
        (c \in live /\ max_iterations[c] >= 1) =>
            /\ calls[c] <= max_iterations[c]
            /\ pc[c] = "returned" =>
                 /\ outcome[c] = "max_iterations" => calls[c] = max_iterations[c]
                 /\ calls[c] < max_iterations[c] => outcome[c] \in {"success", "plateau"}

C5_TerminatesWithinBudget ==
    /\ []C5_CallCount
    /\ \A c \in Clients : (pc[c] = "running") ~> (pc[c] # "running")

\* a run of several iterations that used its whole budget
C5_Witness ==
    \E c \in Clients :
        /\ Ended(c)
        /\ outcome[c] = "max_iterations"
        /\ calls[c] = max_iterations[c]
        /\ max_iterations[c] >= 2

\* C6: a run ended by plateau ends at an iteration k >= 3, the first at which
\* the last three scores are identical, and reports k; PlateauSimulator
\* with threshold 0.9 and max_iterations 5 ends by plateau at iteration 4.
C6_PlateauAtFirstFullWindow ==
    \A c \in Clients :
        /\ (Ended(c) /\ outcome[c] = "plateau") =>
              /\ ret[c].iteration >= PlateauWindow
              /\ ret[c].iteration = calls[c]
              /\ is_plateau(ret[c].history)
        /\ ( /\ Ended(c)
             /\ kind[c] = "plateau"
             /\ max_iterations[c] = 5
             /\ success_threshold[c] = 90
             /\ base[c] = 0 )
           => outcome[c] = "plateau" /\ ret[c].iteration = 4

\* C7: a run stops at the first iteration whose score is >= the threshold
\* and reports that iteration; the base class with threshold 0.9 and
\* max_iterations 5 ends at iteration 4 by success with best_iteration 4,
\* score 0.92 and a history of 4 attempts.
C7_StopsAtFirstSuccess ==
    \A c \in Clients :
        c \in live =>
            /\ \A i \in RunIndexes(c) :
                  history[c][i].score >= success_threshold[c] =>
                      /\ i = Len(history[c])
                      /\ pc[c] = "returned"
                      /\ outcome[c] = "success"
                      /\ ret[c].iteration = i - base[c]
                      /\ ret[c].iteration = history[c][i].iteration
                      /\ ret[c].score = history[c][i].score
                      /\ ret[c].solution = history[c][i].solution
            /\ (pc[c] = "returned" /\ outcome[c] = "success") =>
                  Last(history[c]).score >= success_threshold[c]
            /\ ( /\ pc[c] = "returned"
                 /\ kind[c] = "default"
                 /\ max_iterations[c] = 5
                 /\ success_threshold[c] = 90
                 /\ base[c] = 0 )
               => /\ outcome[c] = "success"
                  /\ ret[c].iteration = 4
                  /\ ret[c].best_iteration = 4
                  /\ ret[c].score = 92
                  /\ [i \in 1..Len(ret[c].history) |-> ret[c].history[i].score]
                        = <<60, 75, 88, 92>>

C7_Witness ==
    \E c \in Clients :
        /\ Ended(c)
        /\ kind[c] = "default"
        /\ max_iterations[c] = 5
        /\ success_threshold[c] = 90
        /\ base[c] = 0
        /\ outcome[c] = "success"

\* C8: a run that exhausts max_iterations with its last score below the
\* threshold and no plateau returns past the loop, reports max_iterations
\* and returns the best attempt of the history, below the threshold when
\* every score is; the base class with threshold 0.9 and max_iterations 3
\* ends at iteration 3 with best_iteration 3 and score 0.88.
C8_ExhaustionReturnsBest ==
    \A c \in Clients :
        c \in live =>
            /\ ( /\ pc[c] = "returned"
                 /\ max_iterations[c] >= 1
                 /\ calls[c] = max_iterations[c]
                 /\ Last(history[c]).score < success_threshold[c]
                 /\ ~is_plateau(history[c]) )
               => outcome[c] = "max_iterations"
            /\ (pc[c] = "returned" /\ outcome[c] = "max_iterations") =>
                  /\ ret[c].iteration = max_iterations[c]
                  /\ \E i \in 1..Len(history[c]) :
                        /\ IsMax(history[c], i)
                        /\ ret[c].score = history[c][i].score
                        /\ ret[c].solution = history[c][i].solution
                  /\ (\A i \in 1..Len(history[c]) :
                         history[c][i].score < success_threshold[c])
                     => ret[c].score < success_threshold[c]
            /\ ( /\ pc[c] = "returned"
                 /\ kind[c] = "default"
                 /\ max_iterations[c] = 3
                 /\ success_threshold[c] = 90 )
               => /\ outcome[c] = "max_iterations"
                  /\ ret[c].iteration = 3
                  /\ ret[c].best_iteration = 3
                  /\ ret[c].score = 88

\* exhaustion whose best attempt is not the last one
C8_Witness ==
    \E c \in Clients :
        /\ Ended(c)
        /\ outcome[c] = "max_iterations"
        /\ ret[c].score < success_threshold[c]
        /\ ret[c].score > Last(history[c]).score

\* C9: the i-th entry of the history always has iteration number i, after
\* any sequence of refine() calls.
C9_IterationIsPosition ==
    \A c \in Clients :
        \A i \in 1..Len(history[c]) : history[c][i].iteration = i

\* C10: when _execute_iteration fails at iteration k, refine() raises at
\* once without another call and the history holds exactly k-1 attempts.
C10_FailureLeavesEarlierAttempts ==
    \A c \in Clients :
        (c \in live /\ pc[c] = "raised" /\ err[c] = "IterationError") =>
            /\ calls[c] = iteration[c]
            /\ Len(history[c]) = iteration[c] - 1
\* C11: a failure of _execute_iteration at iteration k reaches the caller
\* carrying the iteration number k.
C11_FailureTaggedWithIteration ==
    \A c \in Clients :
        (c \in live /\ pc[c] = "raised" /\ err[c] = "IterationError") =>
            err_iteration[c] = iteration[c]

ClientState(c) ==
    <<history[c], pc[c], iteration[c], ret[c], outcome[c], err[c], calls[c],
      base[c], err_iteration[c], kind[c], max_iterations[c],
      success_threshold[c]>>

\* every attempt in c's history is one c's own _execute_iteration returns,
\* and the attempts of c's current run are numbered 1, 2, ... in order
C13_OwnAttemptsOnly ==
    \A c \in Clients :
        /\ \A i \in 1..Len(history[c]) :
              history[c][i] \in execute_iteration(kind[c], history[c][i].iteration)
        /\ \A i \in RunIndexes(c) : history[c][i].iteration = i - base[c]
        /\ (Ended(c) /\ base[c] = 0 /\ kind[c] = "default"
              /\ max_iterations[c] = 5 /\ success_threshold[c] = 90)
           => /\ ret[c].iteration = 4 /\ ret[c].score = 92
              /\ ret[c].history = [i \in 1..4 |-> ExecuteIterationDefault(i)]
        /\ (Ended(c) /\ base[c] = 0 /\ kind[c] = "plateau"
              /\ max_iterations[c] = 5 /\ success_threshold[c] = 90)
           => /\ ret[c].iteration = 4 /\ ret[c].score = 82
              /\ ret[c].history = [i \in 1..4 |-> ExecuteIterationPlateau(i)]

\* C13: two clients share no mutable state: a step changes the fields of
\* one client at most, a client's history holds its own attempts only, and
\* under every interleaving a client returns what it returns running alone.
C13_ClientsIndependent ==
    /\ []C13_OwnAttemptsOnly
    /\ [][\A c, d \in Clients :
            (c # d /\ ClientState(d)' # ClientState(d))
            => ClientState(c)' = ClientState(c)]_vars

\* both clients are in the middle of a run, each with attempts of its own
C13_Witness ==
    /\ live = Clients
    /\ \A c \in Clients :
          pc[c] = "running" /\ Len(history[c]) >= 1 /\ calls[c] >= 1
\* C14: every return of refine() (success, plateau, max iterations) carries
\* the whole accumulated history: every attempt made, in the order made,
\* the attempts of the run numbered 1..k and the last one the attempt that
\* ended the run.
C14_ResultCarriesFullHistory ==
    \A c \in Clients :
        Ended(c) =>
            /\ ret[c].history = history[c]
            /\ Len(ret[c].history) = base[c] + calls[c]
            /\ \A i \in 1..calls[c] :
                  ret[c].history[base[c] + i].iteration = i
            /\ calls[c] >= 1 =>
                  /\ Last(ret[c].history).iteration = calls[c]
                  /\ outcome[c] \in {"success", "plateau"} =>
                        /\ ret[c].score = Last(ret[c].history).score
                        /\ ret[c].iteration = Last(ret[c].history).iteration

\* a run ended by plateau has returned a history of three attempts or more
C14_Witness ==
    \E c \in Clients :
        /\ Ended(c)
        /\ outcome[c] = "plateau"
        /\ Len(ret[c].history) >= 3
\* C15: the best_iteration of a result is the iteration number of an attempt
\* whose score no attempt of the history exceeds, the lowest iteration
\* number among the attempts with that score.
C15_BestIterationIsEarliestMax ==
    \A c \in Clients :
        Ended(c) =>
            \E i \in 1..Len(ret[c].history) :
                /\ IsBest(ret[c].history, i)
                /\ ret[c].best_iteration = ret[c].history[i].iteration
Spread(h) ==
    LET recent == {h[i].score : i \in (Len(h) - 2)..Len(h)}
    IN  CHOOSE d \in 0..100 : \E a, b \in recent :
            /\ d = a - b
            /\ \A x \in recent : b <= x /\ x <= a

\* the history of the first n iterations of test_iteration_plateau_detection
TestHistory(n) == [i \in 1..n |-> Attempt(i, TestIterationScores[i], 0)]

\* an iteration of c's run has just scored below the threshold
ScoredBelow(c) ==
    /\ c \in live
    /\ pc[c] \in {"running", "returned"}
    /\ calls[c] >= 1
    /\ Last(history[c]).score < success_threshold[c]

RecommendationOf(r) ==
    CASE r = "execute_directly" -> "solve-directly"
      [] r = "single_pass_review" -> "single-pass-with-review"
      [] r = "iterative_refinement" -> "iterative-refinement"
      [] OTHER -> r

\* the bands that hold the score
BandsOf(score) == {b \in Bands : b.lo <= score /\ score <= b.hi}

\* the one route the claim's four cases give a score
ClaimedRoute(score) ==
    CHOOSE r \in {"execute_directly", "single_pass_review",
                  "iterative_refinement", "ensemble"} :
        \/ score <= 300 /\ r = "execute_directly"
        \/ 300 < score /\ score <= 600 /\ r = "single_pass_review"
        \/ 600 < score /\ score <= 850 /\ r = "iterative_refinement"
        \/ score > 850 /\ r = "ensemble"

RECURSIVE SumVotes(_)
SumVotes(groups) ==
    IF groups = <<>>
    THEN 0
    ELSE groups[Len(groups)].vote_count
         + SumVotes(SubSeq(groups, 1, Len(groups) - 1))

\* the coordinator has returned its result
Coordinated == selected_solution # "none"

C24_BudgetBeforePlateau ==
    \A c \in Clients :
        ( /\ Ended(c)
          /\ calls[c] = max_iterations[c]
          /\ Last(history[c]).score < success_threshold[c]
          /\ is_plateau(history[c]) )
        => /\ outcome[c] = "max_iterations"
           /\ ret[c].score = MaxByScore(history[c]).score
           /\ ret[c].solution = MaxByScore(history[c]).solution

\* C25: on every history a client holds, _is_plateau is true exactly when the
\* history has three attempts or more and max - min of the last three scores
\* is 0; below three attempts it is false.
C25_PlateauRuleWindowThreeEpsilonZero ==
    \A c \in Clients :
        /\ is_plateau(history[c])
              <=> (Len(history[c]) >= PlateauWindow
                     /\ Spread(history[c]) <= 0)
        /\ Len(history[c]) < PlateauWindow => ~is_plateau(history[c])

\* a history of four attempts or more whose last three scores are equal and
\* whose last two scores before them are not
C25_Witness ==
    \E c \in Clients :
        /\ c \in live
        /\ Len(history[c]) >= 4
        /\ is_plateau(history[c])
        /\ ~is_plateau(SubSeq(history[c], 1, Len(history[c]) - 1))

\* C26: every step leaves the history as it is or adds one attempt at its
\* end, during a run and from one run to the next.
C26_HistoryAppendOnly ==
    [][\A c \in Clients :
          \/ history'[c] = history[c]
          \/ /\ Len(history'[c]) = Len(history[c]) + 1
             /\ SubSeq(history'[c], 1, Len(history[c])) = history[c]]_vars

\* a later run has appended to the attempts of an earlier one
C26_Witness ==
    \E c \in Clients :
        /\ c \in live
        /\ base[c] >= PlateauWindow
        /\ Len(history[c]) > base[c]

\* C27: on a fresh client a run that ends by success returns its last
\* attempt, which is the only attempt of the history at or above the
\* threshold: best_iteration is the final iteration and the score returned
\* is at or above the threshold.
C27_SuccessIsUniqueMaximum ==
    \A c \in Clients :
        (Ended(c) /\ base[c] = 0 /\ outcome[c] = "success") =>
            LET h == history[c]
            IN  /\ \A i \in 1..(Len(h) - 1) :
                      /\ h[i].score < success_threshold[c]
                      /\ h[i].score < Last(h).score
                /\ ret[c].best_iteration = ret[c].iteration
                /\ ret[c].iteration = Last(h).iteration
                /\ ret[c].score = Last(h).score
                /\ ret[c].score >= success_threshold[c]

\* a fresh client has succeeded after two attempts or more
C27_Witness ==
    \E c \in Clients :
        /\ Ended(c)
        /\ base[c] = 0
        /\ outcome[c] = "success"
        /\ Len(history[c]) >= 2

\* C28: while a later run appends to the client's history, the history in
\* the result returned before stays as it was returned.
C28_ReturnedHistoryIsSnapshot ==
    [][\A c \in Clients :
          (ret[c] # NoResult /\ pc'[c] # "returned")
          => ret'[c].history = ret[c].history]_vars

\* a later run has appended to the client's history, and the result
\* returned before still has the history of its own return
C28_Witness ==
    \E c \in Clients :
        /\ c \in live
        /\ pc[c] = "running"
        /\ ret[c] # NoResult
        /\ Len(history[c]) > Len(ret[c].history)
        /\ ret[c].history = SubSeq(history[c], 1, Len(ret[c].history))
\* the entry is missing or None
IsNull(entry) == entry.kind \in {"missing", "none"}

\* C21: handle_iteration_timeout returns an action for every response:
\* budget_exhausted gives return_best_attempt with the response's self_score
\* as best_score; max_iterations_reached gives accept_good_enough for a
\* self_score of 0.7 or more and suggest_decomposition otherwise;
\* plateau_detected gives try_different_approach; any other or absent status
\* gives proceed.
C21_IterationTimeoutTable ==
    handler = "handle_iteration_timeout" =>
        LET st == response.status
            ss == response.self_score
        IN  /\ recovery.raised = "none"
            /\ st = "budget_exhausted" =>
                  /\ recovery.action = "return_best_attempt"
                  /\ recovery.best_score = Get(ss)
            /\ st = "max_iterations_reached" =>
                  recovery.action =
                      IF ss.kind = "num" /\ ss.n >= AcceptableScore
                      THEN "accept_good_enough"
                      ELSE "suggest_decomposition"
            /\ st = "plateau_detected" =>
                  recovery.action = "try_different_approach"
            /\ st \notin {"budget_exhausted", "max_iterations_reached",
                          "plateau_detected"} =>
                  recovery.action = "proceed"

\* C22: a response whose complexity_score is null never proceeds: it gives
\* ask_user with the response's questions for clarify-requirements,
\* provide_context for cannot-assess and use_best_judgment with fallback
\* score 5.0 for any other recommendation, whatever the confidence; with a
\* score, it gives warn_user exactly for a confidence below 0.5 and proceed
\* otherwise.
C22_NullScoreNeverProceeds ==
    handler = "handle_complexity_assessment_error" =>
        LET r == response
        IN  /\ recovery.raised = "none"
            /\ IsNull(r.complexity_score) =>
                  /\ recovery.action # "proceed"
                  /\ r.recommendation = "clarify-requirements" =>
                        /\ recovery.action = "ask_user"
                        /\ recovery.questions.items = r.questions.items
                  /\ r.recommendation = "cannot-assess" =>
                        recovery.action = "provide_context"
                  /\ r.recommendation
                        \notin {"clarify-requirements", "cannot-assess"} =>
                        /\ recovery.action = "use_best_judgment"
                        /\ recovery.fallback_score = Num(FallbackScore)
            /\ ~IsNull(r.complexity_score) =>
                  recovery.action =
                      IF r.confidence.kind = "num"
                           /\ r.confidence.n < LowConfidence
                      THEN "warn_user"
                      ELSE "proceed"

\* a response with a null score and a confidence of 0.85 has been answered
\* with the fallback score
C22_Witness ==
    /\ handler = "handle_complexity_assessment_error"
    /\ response.complexity_score = None
    /\ response.confidence = Num(85)
    /\ recovery.action = "use_best_judgment"

\* C23: handle_evaluation_error takes the first case that applies of:
\* test_execution_error gives use_partial_evaluation with the response's
\* scores, file_access_error gives abort_evaluation, a null overall_score
\* gives skip_evaluation, a note gives proceed_with_warning, and proceed
\* otherwise.
C23_EvaluationErrorPriority ==
    handler = "handle_evaluation_error" =>
        LET r == response
            type == IF r.error.kind = "missing" THEN Absent ELSE r.error.type
        IN  /\ recovery.raised = "none"
            /\ type = "test_execution_error" =>
                  /\ recovery.action = "use_partial_evaluation"
                  /\ recovery.partial_scores.items = r.scores.items
            /\ type = "file_access_error" =>
                  recovery.action = "abort_evaluation"
            /\ type \notin {"test_execution_error", "file_access_error"} =>
                  recovery.action =
                      IF IsNull(r.overall_score) THEN "skip_evaluation"
                      ELSE IF r.note # Absent THEN "proceed_with_warning"
                      ELSE "proceed"
            /\ recovery.action = "proceed" =>
                  /\ type \notin {"test_execution_error", "file_access_error"}
                  /\ ~IsNull(r.overall_score)
                  /\ r.note = Absent

\* a test-execution failure with a null overall_score and a note has given
\* the partial evaluation
C23_Witness ==
    /\ handler = "handle_evaluation_error"
    /\ response.error.kind = "dict"
    /\ response.error.type = "test_execution_error"
    /\ response.overall_score = None
    /\ response.note # Absent
    /\ response.scores.kind = "dict"
    /\ recovery.action = "use_partial_evaluation"
    /\ recovery.partial_scores = response.scores
\* C29: route_based_on_complexity returns a strategy for every assessment:
\* clarify-with-user for a confidence below 0.5 whatever the recommendation;
\* otherwise the strategy of the recommendation for the five known
\* recommendations, each its own, and unknown for any other.
C29_RouteTotalLowConfidenceFirst ==
    handler = "route_based_on_complexity" =>
        LET a == response
            low == a.confidence.kind = "num" /\ a.confidence.n < LowConfidence
        IN  /\ recovery.raised = "none"
            /\ low => recovery.action = "clarify-with-user"
            /\ (~low /\ a.recommendation \in KnownRecommendations) =>
                  /\ recovery.action = strategies[a.recommendation]
                  /\ \A o \in KnownRecommendations :
                        o # a.recommendation
                        => strategies[o] # recovery.action
            /\ (~low /\ a.recommendation \notin KnownRecommendations) =>
                  recovery.action = "unknown"

\* C30: a result of refine() passed to handle_iteration_timeout gives
\* proceed, whichever return of refine() built it.
C30_RefineResultProceeds ==
    /\ \A c \in Clients :
          Ended(c) =>
              handle_iteration_timeout(ResultAsResponse(ret[c])).action
                  = "proceed"
    /\ handler = "handle_iteration_timeout" =>
          /\ recovery.action = "proceed"
          /\ recovery.raised = "none"

\* the result of a run that ended by plateau has been passed to
\* handle_iteration_timeout
C30_Witness ==
    \E c \in Clients :
        /\ Ended(c)
        /\ outcome[c] = "plateau"
        /\ handler = "handle_iteration_timeout"
        /\ response = ResultAsResponse(ret[c])
        /\ recovery.action = "proceed"
====
